---- MODULE Spec2Model ----
(***************************************************************************)
(* Model of sw.js, the service worker of wyerd.net: the fetch listener     *)
(* (sw.js:42-68) and the failover forwarder handleApiRequest               *)
(* (sw.js:71-179).                                                         *)
(*                                                                         *)
(* Text is modelled as a tuple of one-character strings, so that           *)
(* String.prototype.startsWith, String.prototype.includes and the          *)
(* template literal of sw.js:87 are computed rather than assumed.          *)
(* One fetch event is one entry of ops; its fields carry the names of the  *)
(* locals of handleApiRequest (i, lastError, request).  An action is one   *)
(* run of the JavaScript between two suspension points (await).            *)
(***************************************************************************)
EXTENDS Integers, Sequences, FiniteSets, TLC

(* -------------------- configuration (sw.js:4-9) ------------------------ *)

CACHE_NAME == "wyerd-crm-v2"

PRIMARY_BACKEND ==
  <<"h","t","t","p","s",":","/","/","e","x","p","e","r","t","-","f","i","s","h","s","t","i","c","k","-","7","v","w","j","9","x","9","v","j","6","r","9","3","w","q","q","p","-","5","1","7","3",".","a","p","p",".","g","i","t","h","u","b",".","d","e","v">>

FALLBACK_BACKENDS ==
  << <<"h","t","t","p","s",":","/","/","e","x","p","e","r","t","-","f","i","s","h","s","t","i","c","k","-","7","v","w","j","9","x","9","v","j","6","r","9","3","w","q","q","p","-","5","0","0","0",".","a","p","p",".","g","i","t","h","u","b",".","d","e","v">>,
     <<"h","t","t","p","s",":","/","/","f","a","c","i","l","i","t","a","t","e","-","d","i","m","-","i","n","s","i","g","h","t","-","w","r","i","t","e","s",".","t","r","y","c","l","o","u","d","f","l","a","r","e",".","c","o","m">> >>

\* sw.js:46, the literal handed to startsWith
API_PREFIX == <<"/","a","p","i","/">>

\* sw.js:99, the literal handed to includes
CODESPACE_MARK == <<"a","p","p",".","g","i","t","h","u","b",".","d","e","v">>

\* sw.js:104 and sw.js:136
CANONICAL_ORIGIN == "https://wyerd.net"

(* ------------------------- text helpers -------------------------------- *)

\* the bug pathname === '/api/': the whole path is compared
StartsWithWhole(s, p) == s = p

\* the bug pathname.includes('/api/'): the prefix is looked for anywhere
StartsWithAnywhere(s, p) ==
  \E off \in 0..(Len(s) - Len(p)) :
    \A k \in 1..Len(p) : s[off + k] = p[k]

\* String.prototype.startsWith(p), sw.js:46
StartsWith(s, p) ==
  /\ Len(p) <= Len(s)
  /\ \A k \in 1..Len(p) : s[k] = p[k]

\* String.prototype.includes(sub), sw.js:99
Includes(s, sub) ==
  \E off \in 0..(Len(s) - Len(sub)) :
    \A k \in 1..Len(sub) : s[off + k] = sub[k]

(* ------------------------ Headers objects ------------------------------ *)

\* Headers normalises a name to lower case before it stores or looks it up.
LowerCase(name) ==
  CASE name = "Origin" -> "origin"
    [] name = "Content-Type" -> "content-type"
    [] name = "Authorization" -> "authorization"
    [] OTHER -> name

NoHeaders == [n \in {} |-> ""]

\* Headers.prototype.set, sw.js:95 and sw.js:104
HeadersSet(h, name, value) ==
  [n \in (DOMAIN h) \cup {LowerCase(name)} |->
     IF n = LowerCase(name) THEN value ELSE h[n]]

\* Headers.prototype.delete, sw.js:101
HeadersDelete(h, name) ==
  [n \in (DOMAIN h) \ {LowerCase(name)} |-> h[n]]

(* --------------------- the intercepted requests ------------------------ *)

\* the body of a request or response that has none
NullBody == [null |-> TRUE]

TextBody(s) == [text |-> s]

\* Request.method values for which sw.js:111 reads no body
BodylessMethods == {"GET", "HEAD"}

\* The requests the pages send: event.request of sw.js:42, as (method,
\* URL.pathname, URL.search, headers, body).  Header names are held in
\* lower case, as Headers.prototype.entries yields them (sw.js:94).
InScopeRequests ==
  { [method |-> "GET", pathname |-> <<"/","a","p","i","/","u","s","e","r","s">>, search |-> <<"?","p","a","g","e","=","2">>,
     headers |-> [n \in {"authorization"} |-> "Bearer t"], body |-> NullBody],
    [method |-> "POST", pathname |-> <<"/","a","p","i","/","u","s","e","r","s">>, search |-> <<>>,
     headers |-> [n \in {"content-type", "origin"} |->
                    IF n = "origin" THEN "https://page.example" ELSE "application/json"],
     body |-> TextBody("{\"name\":\"x\"}")],
    [method |-> "HEAD", pathname |-> <<"/","a","p","i","/">>, search |-> <<>>,
     headers |-> NoHeaders, body |-> NullBody] }

OutOfScopeRequests ==
  { [method |-> "GET", pathname |-> <<"/","a","s","s","e","t","s","/","l","o","g","o",".","p","n","g">>, search |-> <<>>,
     headers |-> NoHeaders, body |-> NullBody],
    [method |-> "GET", pathname |-> <<"/","a","p","i">>, search |-> <<>>,
     headers |-> [n \in {"authorization"} |-> "Bearer t"], body |-> NullBody],
    [method |-> "POST", pathname |-> <<"/","v","1","/","a","p","i","/","u","s","e","r","s">>, search |-> <<"?","p","a","g","e","=","2">>,
     headers |-> [n \in {"content-type"} |-> "application/json"],
     body |-> TextBody("{\"name\":\"x\"}")] }

Requests == InScopeRequests \cup OutOfScopeRequests

NoRequest ==
  [method |-> "", pathname |-> <<>>, search |-> <<>>, headers |-> NoHeaders,
   body |-> NullBody]

(* ------------------------- what backends do ---------------------------- *)

\* status codes a backend answers with
Statuses == {200, 204, 404, 500, 503}

\* Fetch Standard, "null body status": a response with one has no body
NullBodyStatuses == {101, 103, 204, 205, 304}

\* Response.statusText as the backend sends it
StatusText(status) ==
  CASE status = 200 -> "OK"
    [] status = 204 -> "No Content"
    [] status = 404 -> "Not Found"
    [] status = 500 -> "Internal Server Error"
    [] status = 503 -> "Service Unavailable"
    [] OTHER -> ""

\* texts response.text() resolves with (sw.js:130) for a backend's answer
BodyTexts(status) ==
  IF status \in NullBodyStatuses THEN {""}
  ELSE {"{\"ok\":true}", "{\"error\":\"backend\"}"}

(* ----------------------------- errors ---------------------------------- *)

NoError == [name |-> "null", message |-> ""]

\* fetch() rejects: connection refused, DNS failure, CORS rejection
NetworkError == [name |-> "TypeError", message |-> "Failed to fetch"]

\* the same rejection in an engine that gives the error no message: the
\* text of message is left to the implementation
NetworkErrorNoMessage == [name |-> "TypeError", message |-> ""]

\* what fetch() rejects with when the backend cannot be reached
FetchErrors == {NetworkError, NetworkErrorNoMessage}

\* fetch() rejects because controller.abort() ran (sw.js:118)
AbortError == [name |-> "AbortError", message |-> "signal is aborted without reason"]

\* response.text() rejects: the connection broke while the body streamed
BodyStreamError == [name |-> "TypeError", message |-> "network error"]

\* new Response(body, {status}) with a null body status and a non-null body
NullBodyStatusError ==
  [name |-> "TypeError", message |-> "Response with null body status cannot have body"]

\* new Response(body, {status}) with a status outside 200..599
StatusRangeError ==
  [name |-> "RangeError", message |-> "The status provided is outside the range [200, 599]"]

\* request.clone() on a request whose body was already read
BodyUsedError == [name |-> "TypeError", message |-> "Request body is already used"]

(* ------------------- Request and Response objects ---------------------- *)

\* Fetch Standard, "forbidden request-header" (the names relevant to the
\* requests above): a Request's Headers has the guard "request", and filling
\* it silently skips these names.
ForbiddenRequestHeaders ==
  {"origin", "cookie", "host", "referer", "content-length", "connection"}

\* new Request(fullBackendUrl, {method, headers, body, credentials, mode}),
\* sw.js:108-114
NewRequest(url, method, headers, body) ==
  [url |-> url,
   method |-> method,
   headers |-> [n \in (DOMAIN headers) \ ForbiddenRequestHeaders |-> headers[n]],
   body |-> body,
   credentials |-> "include",
   mode |-> "cors"]

\* new Response(body, {status, statusText, headers}), sw.js:54, 131, 160:
\* the constructor throws for a status outside 200..599 and for a body given
\* with a null body status.
NewResponse(body, status, statusText, headers) ==
  IF ~(status \in 200..599)
    THEN [threw |-> TRUE, error |-> StatusRangeError]
  ELSE IF body # NullBody /\ status \in NullBodyStatuses
    THEN [threw |-> TRUE, error |-> NullBodyStatusError]
  ELSE [threw |-> FALSE,
        value |-> [status |-> status, statusText |-> statusText,
                   headers |-> headers, body |-> body]]

NoResponse ==
  [status |-> 0, statusText |-> "", headers |-> NoHeaders, body |-> NullBody]

(* ---------------- handleApiRequest, sw.js:71-179 ----------------------- *)

\* sw.js:72-75
backendUrls == <<PRIMARY_BACKEND>> \o FALLBACK_BACKENDS

\* sw.js:87
fullBackendUrl(request, i) ==
  backendUrls[i + 1] \o request.pathname \o request.search

\* sw.js:91-106: copy the original headers, then adapt Origin to the backend
requestHeaders(request, i) ==
  LET orig == request.headers
      copied == [n \in {LowerCase(k) : k \in DOMAIN orig} |->
                   orig[CHOOSE k \in DOMAIN orig : LowerCase(k) = n]]
  IN  IF Includes(backendUrls[i + 1], CODESPACE_MARK)
        THEN HeadersDelete(copied, "Origin")
        ELSE HeadersSet(copied, "Origin", CANONICAL_ORIGIN)

\* the bug of request.text() without clone(): reading the body uses it up
CloneTextConsumes(request, bodyUsed) ==
  IF bodyUsed
    THEN [threw |-> TRUE, error |-> BodyUsedError, bodyUsed |-> bodyUsed]
    ELSE [threw |-> FALSE, value |-> request.body, bodyUsed |-> TRUE]

\* sw.js:111, await request.clone().text(): clone() throws when the body of
\* request was already read; text() reads the clone, not request.
CloneText(request, bodyUsed) ==
  IF bodyUsed
    THEN [threw |-> TRUE, error |-> BodyUsedError, bodyUsed |-> bodyUsed]
    ELSE [threw |-> FALSE, value |-> request.body, bodyUsed |-> bodyUsed]

\* sw.js:111, the body option
requestBody(request, bodyUsed) ==
  IF request.method \notin BodylessMethods
    THEN CloneText(request, bodyUsed)
    ELSE [threw |-> FALSE, value |-> NullBody, bodyUsed |-> bodyUsed]

\* sw.js:108-114
backendRequest(request, i, body) ==
  NewRequest(fullBackendUrl(request, i), request.method,
             requestHeaders(request, i), body)

\* the bug of the wildcard origin on the forwarded answer too
BackendResponseHeadersWildcard ==
  [n \in {"content-type", "access-control-allow-origin",
          "access-control-allow-methods", "access-control-allow-headers",
          "access-control-allow-credentials"} |->
     CASE n = "content-type" -> "application/json"
       [] n = "access-control-allow-origin" -> "*"
       [] n = "access-control-allow-methods" -> "GET, POST, PUT, DELETE, OPTIONS"
       [] n = "access-control-allow-headers" -> "Content-Type, Authorization, X-Requested-With"
       [] n = "access-control-allow-credentials" -> "true"]

\* sw.js:131-141
BackendResponseHeaders ==
  [n \in {"content-type", "access-control-allow-origin",
          "access-control-allow-methods", "access-control-allow-headers",
          "access-control-allow-credentials"} |->
     CASE n = "content-type" -> "application/json"
       [] n = "access-control-allow-origin" -> CANONICAL_ORIGIN
       [] n = "access-control-allow-methods" -> "GET, POST, PUT, DELETE, OPTIONS"
       [] n = "access-control-allow-headers" -> "Content-Type, Authorization, X-Requested-With"
       [] n = "access-control-allow-credentials" -> "true"]

\* sw.js:131-141
ForwardedResponse(status, statusText, text) ==
  NewResponse(TextBody(text), status, statusText, BackendResponseHeaders)

\* sw.js:164, lastError?.message || 'Unknown error'
LastErrorMessage(lastError) ==
  IF lastError = NoError \/ lastError.message = ""
    THEN "Unknown error" ELSE lastError.message

\* sw.js:160-178
AllFailedResponse(lastError) ==
  NewResponse(
    [error |-> "All Backends Failed",
     message |-> "Unable to connect to any backend server. Check if development server is running.",
     backends |-> backendUrls,
     lastError |-> LastErrorMessage(lastError),
     solutions |-> <<"Start dev server: npm run dev (port 5173)",
                     "Start backend: node server.js (http://localhost:5000)",
                     "Check CORS configuration",
                     "Verify MongoDB connection">>,
     timestamp |-> "new Date().toISOString()"],
    503, "",
    [n \in {"content-type", "access-control-allow-origin"} |->
       IF n = "content-type" THEN "application/json" ELSE "*"])

(* --------------------- the fetch listener, sw.js:42-68 ------------------ *)

Fulfilled(value) == [state |-> "fulfilled", value |-> value]
Rejected(reason) == [state |-> "rejected", reason |-> reason]

\* sw.js:52-61, the callback handed to .catch
InternalFaultResponse(error) ==
  NewResponse(
    [error |-> "API request failed", message |-> error.message],
    500, "", [n \in {"content-type"} |-> "application/json"]).value

\* the bug of a missing .catch: the promise is handed on as it is
CatchHandlerMissing(settled) == settled

\* sw.js:51-61, handleApiRequest(event.request).catch(...): a fulfilled
\* promise passes through, a rejected one is turned into the 500 response
CatchHandler(settled) ==
  IF settled.state = "rejected"
    THEN Fulfilled(InternalFaultResponse(settled.reason))
    ELSE settled

(* ------------------------------ state ---------------------------------- *)

\* the fetch events of a run
Reqs == {1}

\* ops[r] is the fetch event r and the forwarding operation it starts:
\*   pc          where the event's code is suspended
\*   request     event.request
\*   bodyUsed    request.bodyUsed
\*   i, lastError  the locals of handleApiRequest (sw.js:81, 84)
\*   attempts    one entry per loop iteration, in order: the derived request,
\*               what became of it (state, and the status and body text the
\*               backend sent), whether the iteration ended in the catch
\*               block of sw.js:143, and the error logged there (sw.js:145)
\*   timers      the iterations whose setTimeout (sw.js:118) is still armed
\*   respondWith the promises given to event.respondWith, in order
\*   promise     that promise, once it has settled
\*   passed      the request given to the plain fetch of sw.js:67
\*   result      what the page that made the request receives
VARIABLE ops

\* sw is the service worker's lifecycle (sw.js:16-39):
\*   pc          where the lifecycle stands
\*   skipWaiting whether self.skipWaiting() was called (sw.js:19)
\*   caches      the names in the CacheStorage
\*   cacheNames  the names caches.keys() resolved with (sw.js:29)
\*   pending     the names whose caches.delete (sw.js:33) has not settled
\*   deleted     the names whose caches.delete resolved
\*   failed      the names whose caches.delete rejected
\*   claimed     whether clients.claim() was called (sw.js:36)
\*   waitUntil   the promise given to event.waitUntil (sw.js:28)
VARIABLE sw

vars == <<ops, sw>>

NewWorker(stored) ==
  [pc |-> "new", skipWaiting |-> FALSE, caches |-> stored, cacheNames |-> {},
   pending |-> {}, deleted |-> {}, failed |-> {}, claimed |-> FALSE,
   waitUntil |-> "none"]

NoResult == [kind |-> "none", response |-> NoResponse]

Pending == [state |-> "pending"]

IdleOp ==
  [pc |-> "idle", request |-> NoRequest, bodyUsed |-> FALSE, i |-> 0,
   lastError |-> NoError, attempts |-> <<>>, timers |-> {},
   respondWith |-> <<>>, promise |-> Pending, passed |-> NoRequest,
   result |-> NoResult]

Init ==
  /\ ops = [r \in Reqs |-> IdleOp]
  /\ sw = NewWorker({CACHE_NAME})

\* the state of the attempt in flight is changed to the given one
EndAttempt(op, state, status, text) ==
  [op EXCEPT !.attempts[Len(op.attempts)] =
     [@ EXCEPT !.state = state, !.status = status, !.text = text]]

\* the promise of handleApiRequest (sw.js:51) or of the plain fetch
\* (sw.js:67) settles
Settle(op, settled) ==
  [op EXCEPT !.pc = "settled", !.promise = settled]

\* event.respondWith(promise), once promise has settled: the page receives
\* the response, or a network error when the promise rejected
RespondWith(op, settled) ==
  [op EXCEPT !.pc = "done",
             !.result = IF settled.state = "fulfilled"
                          THEN [kind |-> "response", response |-> settled.value]
                          ELSE [kind |-> "networkerror", response |-> NoResponse]]

\* the bug of an i++ in the catch block on top of the loop's own: the next
\* candidate is skipped
CatchBlockSkips(op, error) ==
  [op EXCEPT !.lastError = error, !.i = op.i + 2,
             !.attempts[Len(op.attempts)].caught = TRUE,
             !.attempts[Len(op.attempts)].error = error]

\* the bug of lastError = lastError || error: the first failure is kept
CatchBlockKeepsFirst(op, error) ==
  [op EXCEPT !.lastError = IF op.lastError = NoError THEN error ELSE op.lastError,
             !.i = op.i + 1,
             !.attempts[Len(op.attempts)].caught = TRUE,
             !.attempts[Len(op.attempts)].error = error]

\* sw.js:143-152 and the i++ of sw.js:84: the error is kept in lastError
\* (sw.js:144) and logged as the failure of this backend (sw.js:145)
CatchBlock(op, error) ==
  [op EXCEPT !.lastError = error, !.i = op.i + 1,
             !.attempts[Len(op.attempts)].caught = TRUE,
             !.attempts[Len(op.attempts)].error = error]

\* sw.js:84-123 and 155-178: handleApiRequest from the loop test up to its
\* next suspension point, which is the fetch of sw.js:120 or the return of
\* sw.js:160.  The await of sw.js:111 reads the body the page itself sent and
\* is part of the same step.  An exception thrown while the derived request
\* is built lands in the catch block and the loop goes on.
RECURSIVE RunLoop(_)
RunLoop(op) ==
  IF op.i < Len(backendUrls)
    THEN LET body == requestBody(op.request, op.bodyUsed)
         IN  IF body.threw
               THEN RunLoop(CatchBlock(
                      [op EXCEPT !.bodyUsed = body.bodyUsed,
                                 !.attempts = Append(@,
                                   [i |-> op.i, request |-> NoRequest,
                                    state |-> "notsent", status |-> 0,
                                    text |-> "", caught |-> FALSE,
                                    error |-> NoError])],
                      body.error))
               ELSE [op EXCEPT !.pc = "fetching",
                               !.bodyUsed = body.bodyUsed,
                               !.attempts = Append(@,
                                 [i |-> op.i,
                                  request |-> backendRequest(op.request, op.i, body.value),
                                  state |-> "inflight", status |-> 0,
                                  text |-> "", caught |-> FALSE,
                                  error |-> NoError]),
                               !.timers = @ \cup {op.i}]
    ELSE Settle(op, Fulfilled(AllFailedResponse(op.lastError).value))

\* the bug of one AbortController shared by all iterations: any timer aborts
\* whatever attempt is in flight
AbortsShared(op, k) == op.pc \in {"fetching", "reading"}

\* sw.js:117-121: controller k is the AbortController of iteration k, and its
\* signal was given to the fetch of iteration k only
Aborts(op, k) ==
  /\ op.pc \in {"fetching", "reading"}
  /\ op.i = k

(* ----------------------------- actions --------------------------------- *)

\* the bug of a missing return at sw.js:63: a forwarded request falls
\* through to the respondWith of sw.js:67
FetchEventNoReturn(r, req) ==
  /\ UNCHANGED sw
  /\ ops[r].pc = "idle"
  /\ IF StartsWith(req.pathname, API_PREFIX)
       THEN ops' = [ops EXCEPT ![r] =
              RunLoop([IdleOp EXCEPT !.request = req,
                                     !.respondWith = <<"handleApiRequest", "fetch">>,
                                     !.passed = req])]
       ELSE ops' = [ops EXCEPT ![r] =
              [IdleOp EXCEPT !.pc = "passthrough", !.request = req,
                             !.respondWith = <<"fetch">>,
                             !.passed = req]]

\* sw.js:42-68: the host dispatches the fetch event of request req
FetchEvent(r, req) ==
  /\ UNCHANGED sw
  /\ ops[r].pc = "idle"
  /\ IF StartsWith(req.pathname, API_PREFIX)
       THEN ops' = [ops EXCEPT ![r] =
              RunLoop([IdleOp EXCEPT !.request = req,
                                     !.respondWith = <<"handleApiRequest">>])]
       ELSE ops' = [ops EXCEPT ![r] =
              [IdleOp EXCEPT !.pc = "passthrough", !.request = req,
                             !.respondWith = <<"fetch">>,
                             !.passed = req]]

\* sw.js:120-125: the backend of iteration i answers with a status line and
\* headers; the timer is cleared and response.text() (sw.js:130) is awaited
FetchResolves(r, status) ==
  /\ UNCHANGED sw
  /\ ops[r].pc = "fetching"
  /\ ops' = [ops EXCEPT ![r] =
       [EndAttempt(ops[r], "reading", status, "")
          EXCEPT !.pc = "reading", !.timers = @ \ {ops[r].i}]]

\* the bug of a lastError declared at module level, outside handleApiRequest:
\* the failure of one operation is also the last error of all the others
FetchRejectsSharedLastError(r, error) ==
  /\ UNCHANGED sw
  /\ ops[r].pc = "fetching"
  /\ ops' = [q \in DOMAIN ops |->
       IF q = r
         THEN RunLoop([ops[r] EXCEPT !.lastError = error, !.i = ops[r].i + 1,
                         !.attempts[Len(ops[r].attempts)] =
                            [@ EXCEPT !.state = "neterror", !.caught = TRUE,
                                      !.error = error]])
         ELSE [ops[q] EXCEPT !.lastError = error]]

\* sw.js:120, 143-152: the fetch of iteration i rejects (connection refused,
\* DNS failure, CORS rejection); its timer stays armed
FetchRejects(r, error) ==
  /\ UNCHANGED sw
  /\ ops[r].pc = "fetching"
  /\ ops' = [ops EXCEPT ![r] =
       RunLoop(CatchBlock(EndAttempt(ops[r], "neterror", 0, ""), error))]

\* sw.js:118: the timer of iteration k expires and aborts controller k
TimerFires(r, k) ==
  /\ UNCHANGED sw
  /\ k \in ops[r].timers
  /\ LET op == [ops[r] EXCEPT !.timers = @ \ {k}]
     IN  IF Aborts(op, k)
           THEN ops' = [ops EXCEPT ![r] =
                  RunLoop(CatchBlock(EndAttempt(op, "aborted", 0, ""), AbortError))]
           ELSE ops' = [ops EXCEPT ![r] = op]

\* sw.js:130-141: the body of the answer has arrived; the response for the
\* page is built and returned, unless its constructor throws
BodyResolves(r, text) ==
  /\ UNCHANGED sw
  /\ ops[r].pc = "reading"
  /\ LET cur == ops[r].attempts[Len(ops[r].attempts)]
         op == EndAttempt(ops[r], "answered", cur.status, text)
         response == ForwardedResponse(cur.status, StatusText(cur.status), text)
     IN  /\ text \in BodyTexts(cur.status)
         /\ IF response.threw
              THEN ops' = [ops EXCEPT ![r] = RunLoop(CatchBlock(op, response.error))]
              ELSE ops' = [ops EXCEPT ![r] = Settle(op, Fulfilled(response.value))]

\* the bug of a body read outside the try block: the rejection of
\* response.text() rejects handleApiRequest
BodyRejectsEscapes(r) ==
  /\ UNCHANGED sw
  /\ ops[r].pc = "reading"
  /\ ops' = [ops EXCEPT ![r] =
       Settle(EndAttempt(ops[r], "bodyerror",
                         ops[r].attempts[Len(ops[r].attempts)].status, ""),
              Rejected(BodyStreamError))]

\* sw.js:130, 143-152: the connection breaks while the body streams
BodyRejects(r) ==
  /\ UNCHANGED sw
  /\ ops[r].pc = "reading"
  /\ ops' = [ops EXCEPT ![r] =
       RunLoop(CatchBlock(
         EndAttempt(ops[r], "bodyerror", ops[r].attempts[Len(ops[r].attempts)].status, ""),
         BodyStreamError))]

\* sw.js:67: the network answers the request that was passed through
PassThroughResolves(r, status, text) ==
  /\ UNCHANGED sw
  /\ ops[r].pc = "passthrough"
  /\ text \in BodyTexts(status)
  /\ ops' = [ops EXCEPT ![r] =
       Settle(ops[r],
         Fulfilled([status |-> status, statusText |-> StatusText(status),
                    headers |-> [n \in {"content-type"} |-> "text/html"],
                    body |-> IF status \in NullBodyStatuses THEN NullBody
                             ELSE TextBody(text)]))]

\* sw.js:67: the plain fetch rejects
PassThroughRejects(r) ==
  /\ UNCHANGED sw
  /\ ops[r].pc = "passthrough"
  /\ ops' = [ops EXCEPT ![r] = Settle(ops[r], Rejected(NetworkError))]

\* sw.js:50-62 and sw.js:67: the promise given to respondWith has settled.
\* For a forwarded request it is handleApiRequest(...).catch(...), for any
\* other request the promise of the plain fetch.
Respond(r) ==
  /\ UNCHANGED sw
  /\ ops[r].pc = "settled"
  /\ ops' = [ops EXCEPT ![r] =
       RespondWith(ops[r],
         IF ops[r].respondWith = <<"handleApiRequest">>
           THEN CatchHandler(ops[r].promise)
           ELSE ops[r].promise)]

Next ==
  \/ \E r \in Reqs, req \in Requests : FetchEvent(r, req)
  \/ \E r \in Reqs, status \in Statuses : FetchResolves(r, status)
  \/ \E r \in Reqs, error \in FetchErrors : FetchRejects(r, error)
  \/ \E r \in Reqs, k \in 0..(Len(backendUrls) - 1) : TimerFires(r, k)
  \/ \E r \in Reqs, text \in UNION {BodyTexts(status) : status \in Statuses} :
       BodyResolves(r, text)
  \/ \E r \in Reqs : BodyRejects(r)
  \/ \E r \in Reqs, status \in Statuses :
       \E text \in BodyTexts(status) : PassThroughResolves(r, status, text)
  \/ \E r \in Reqs : PassThroughRejects(r)
  \/ \E r \in Reqs : Respond(r)

Spec == Init /\ [][Next]_vars

\* What the host guarantees of the above: a timer that is armed expires
\* (sw.js:118) and a settled promise is delivered.  Nothing makes a backend
\* answer, fail, or send the rest of a body.
FairSpec ==
  /\ Spec
  /\ \A r \in Reqs : WF_vars(Respond(r))
  /\ \A r \in Reqs, k \in 0..(Len(backendUrls) - 1) : WF_vars(TimerFires(r, k))

(* ---- the boundary of sw.js:50-62 on its own: the promise of ----------- *)
(* ---- handleApiRequest is an input, settled either way       ----------- *)

\* error objects a rejection may carry
Errors ==
  {NetworkError, AbortError, BodyStreamError, NullBodyStatusError,
   StatusRangeError, BodyUsedError, [name |-> "Error", message |-> ""]}

\* the promise of handleApiRequest once settled: fulfilled by sw.js:131,
\* fulfilled by sw.js:160, or rejected
SettledOps ==
  { [IdleOp EXCEPT !.pc = "settled", !.request = req,
                   !.respondWith = <<"handleApiRequest">>,
                   !.i = 0,
                   !.promise = Fulfilled(ForwardedResponse(status, StatusText(status), text).value)] :
      req \in InScopeRequests,
      status \in Statuses \ NullBodyStatuses,
      text \in BodyTexts(200) }
  \cup
  { [IdleOp EXCEPT !.pc = "settled", !.request = req,
                   !.respondWith = <<"handleApiRequest">>,
                   !.i = Len(backendUrls), !.lastError = error,
                   !.promise = Fulfilled(AllFailedResponse(error).value)] :
      req \in InScopeRequests, error \in Errors }
  \cup
  { [IdleOp EXCEPT !.pc = "settled", !.request = req,
                   !.respondWith = <<"handleApiRequest">>,
                   !.promise = Rejected(error)] :
      req \in InScopeRequests, error \in Errors }

InitBoundary ==
  /\ ops \in [Reqs -> SettledOps]
  /\ sw = NewWorker({CACHE_NAME})

NextBoundary == \E r \in Reqs : Respond(r)

SpecBoundary == InitBoundary /\ [][NextBoundary]_vars

(* ----- several fetch events at once: one forwarding operation each ----- *)

\* number of fetch events in progress at the same time
NumOps == 2

ConcurrentReqs == 1..NumOps

\* With several operations the backends do less, to keep the interleavings
\* countable: every page sends the same GET, a backend answers 200 with one
\* body, breaks off while it sends it, or is unreachable, and everything
\* happens before the first timeout.
ConcurrentRequest ==
  CHOOSE req \in InScopeRequests : req.method = "GET"

InitConcurrent ==
  /\ ops = [r \in ConcurrentReqs |-> IdleOp]
  /\ sw = NewWorker({CACHE_NAME})

NextConcurrent ==
  \/ \E r \in ConcurrentReqs : FetchEvent(r, ConcurrentRequest)
  \/ \E r \in ConcurrentReqs : FetchResolves(r, 200)
  \/ \E r \in ConcurrentReqs : FetchRejects(r, NetworkError)
  \/ \E r \in ConcurrentReqs : BodyResolves(r, "{\"ok\":true}")
  \/ \E r \in ConcurrentReqs : BodyRejects(r)
  \/ \E r \in ConcurrentReqs : Respond(r)

SpecConcurrent == InitConcurrent /\ [][NextConcurrent]_vars

(* ------------- the lifecycle listeners, sw.js:16-39 -------------------- *)

\* cache names earlier versions of the site and its libraries have left
StoredCacheNames ==
  {"wyerd-crm-v1", "wyerd-crm-v2", "wyerd-crm", "workbox-precache-v2"}

\* the bug of a filter that keeps nothing: the current cache is deleted too
StaleCachesAll(cacheNames) == cacheNames

\* sw.js:31-32, cacheNames.filter(cacheName => cacheName !== CACHE_NAME)
StaleCaches(cacheNames) == {cacheName \in cacheNames : cacheName # CACHE_NAME}

\* sw.js:35-37: Promise.all has fulfilled and the callback of then calls
\* clients.claim()
ClaimClients(w) == [w EXCEPT !.pc = "claiming", !.claimed = TRUE]

\* sw.js:16-20
Install ==
  /\ sw.pc = "new"
  /\ sw' = [sw EXCEPT !.pc = "installed", !.skipWaiting = TRUE]
  /\ UNCHANGED ops

\* sw.js:23-29: the activate event; caches.keys() is called and the chain
\* built on it is given to event.waitUntil
Activate ==
  /\ sw.pc = "installed"
  /\ sw' = [sw EXCEPT !.pc = "keys", !.waitUntil = "pending"]
  /\ UNCHANGED ops

\* sw.js:29-34: caches.keys() resolves; caches.delete is called for every
\* name the filter keeps, and Promise.all waits for all of them (with none
\* to wait for it is fulfilled at once)
KeysResolve ==
  /\ sw.pc = "keys"
  /\ LET w == [sw EXCEPT !.pc = "deleting", !.cacheNames = sw.caches,
                         !.pending = StaleCaches(sw.caches)]
     IN  sw' = IF w.pending = {} THEN ClaimClients(w) ELSE w
  /\ UNCHANGED ops

\* sw.js:29: caches.keys() rejects; the chain, and with it the promise of
\* waitUntil, rejects
KeysReject ==
  /\ sw.pc = "keys"
  /\ sw' = [sw EXCEPT !.pc = "rejected", !.waitUntil = "rejected"]
  /\ UNCHANGED ops

\* sw.js:33: one caches.delete resolves; when it was the last one and none
\* has rejected, Promise.all fulfils
DeleteResolves(cacheName) ==
  /\ cacheName \in sw.pending
  /\ LET w == [sw EXCEPT !.pending = @ \ {cacheName},
                         !.deleted = @ \cup {cacheName},
                         !.caches = @ \ {cacheName}]
     IN  sw' = IF w.pc = "deleting" /\ w.pending = {} THEN ClaimClients(w) ELSE w
  /\ UNCHANGED ops

\* sw.js:30-37: one caches.delete rejects; Promise.all rejects with the
\* first rejection, the callback of sw.js:35 is skipped and the promise of
\* waitUntil rejects.  The deletions still pending go on.
DeleteRejects(cacheName) ==
  /\ cacheName \in sw.pending
  /\ sw' = [sw EXCEPT !.pending = @ \ {cacheName},
                      !.failed = @ \cup {cacheName},
                      !.pc = IF @ = "deleting" THEN "rejected" ELSE @,
                      !.waitUntil = IF sw.pc = "deleting" THEN "rejected" ELSE @]
  /\ UNCHANGED ops

\* sw.js:36: clients.claim() resolves, and with it the promise of waitUntil
ClaimResolves ==
  /\ sw.pc = "claiming"
  /\ sw' = [sw EXCEPT !.pc = "activated", !.waitUntil = "fulfilled"]
  /\ UNCHANGED ops

InitLifecycle ==
  /\ ops = [r \in Reqs |-> IdleOp]
  /\ sw \in {NewWorker(stored) : stored \in SUBSET StoredCacheNames}

NextLifecycle ==
  \/ Install
  \/ Activate
  \/ KeysResolve
  \/ KeysReject
  \/ \E cacheName \in StoredCacheNames : DeleteResolves(cacheName)
  \/ \E cacheName \in StoredCacheNames : DeleteRejects(cacheName)
  \/ ClaimResolves

SpecLifecycle == InitLifecycle /\ [][NextLifecycle]_vars

(* ======================== properties =================================== *)

\* what an attempt ends in when the backend could not be reached or the
\* connection broke: fetch rejected, the timeout aborted it, or the body
\* could not be read to its end
TransportFailures == {"neterror", "aborted", "bodyerror"}

\* an attempt that has not ended
InFlight(a) == a.state \in {"inflight", "reading"}

InScope(op) ==
  /\ Len(op.request.pathname) >= 5
  /\ SubSeq(op.request.pathname, 1, 5) = <<"/", "a", "p", "i", "/">>

\* the response is the 503 of sw.js:160-178
IsAllFailed(response) ==
  /\ response.status = 503
  /\ "backends" \in DOMAIN response.body

\* C1: if candidates 1..N-1 fail at transport level and candidate N returns
\* an HTTP response, then candidates 1..N were attempted once each, in
\* order, no candidate after N is attempted, and the response the page gets
\* has the status and the body of candidate N.
C1_AnswerOfCandidateNIsReturned ==
  \A r \in Reqs :
    LET op == ops[r]
    IN  \A n \in 1..Len(op.attempts) :
          ( /\ \A k \in 1..(n - 1) : op.attempts[k].state \in TransportFailures
            /\ op.attempts[n].state = "answered" )
          => /\ Len(op.attempts) = n
             /\ \A k \in 1..n : op.attempts[k].i = k - 1
             /\ op.pc = "done" =>
                  /\ op.result.kind = "response"
                  /\ op.result.response.status = op.attempts[n].status
                  /\ op.result.response.body = TextBody(op.attempts[n].text)

\* C2: an answer with a status code is terminal, whatever the status: the
\* candidate that answered is the last one attempted and its status is the
\* status of the final response; the candidates followed by another attempt
\* are exactly those that failed at transport level.
C2_AnyStatusIsTerminal ==
  \A r \in Reqs :
    LET op == ops[r]
    IN  \A k \in 1..Len(op.attempts) :
          /\ op.attempts[k].state = "answered" =>
               /\ k = Len(op.attempts)
               /\ op.pc = "done" => op.result.response.status = op.attempts[k].status
          /\ k < Len(op.attempts) => op.attempts[k].state \in TransportFailures

\* C3: the page gets the 503 all-failed response if and only if every
\* candidate was attempted exactly once and every attempt failed to reach
\* its backend; the backends list of its body is the candidate list.
C3_AllFailedIffEveryAttemptFailed ==
  \A r \in Reqs :
    LET op == ops[r]
    IN  (op.pc = "done" /\ InScope(op)) =>
          /\ IsAllFailed(op.result.response) <=>
               /\ Len(op.attempts) = Len(backendUrls)
               /\ \A k \in 1..Len(op.attempts) :
                    /\ op.attempts[k].i = k - 1
                    /\ op.attempts[k].state \in TransportFailures
          /\ IsAllFailed(op.result.response) =>
               op.result.response.body.backends = <<PRIMARY_BACKEND>> \o FALLBACK_BACKENDS

\* C4: the candidates are attempted one at a time in priority order: at
\* most one attempt is in flight, attempt k is on candidate k, and every
\* attempt but the latest has ended, in the catch block (as a failure).
C4_AttemptsAreSequential ==
  \A r \in Reqs :
    LET op == ops[r]
    IN  /\ Cardinality({k \in 1..Len(op.attempts) : InFlight(op.attempts[k])}) <= 1
        /\ \A k \in 1..Len(op.attempts) :
             /\ op.attempts[k].i = k - 1
             /\ k < Len(op.attempts) =>
                  /\ ~InFlight(op.attempts[k])
                  /\ op.attempts[k].caught

\* C4 witness: the third candidate is in flight after the first two failed
C4_Witness ==
  \E r \in Reqs :
    /\ Len(ops[r].attempts) = 3
    /\ ops[r].attempts[3].state = "inflight"
    /\ ops[r].attempts[1].state = "neterror"
    /\ ops[r].attempts[2].state = "aborted"

\* C5: a timer that expires while its own attempt waits for an answer aborts
\* that attempt, which is recorded as a failure, and the next candidate is
\* attempted (or the 503 is returned after the last one); a timer that
\* expires after its attempt has ended changes nothing but itself: no other
\* attempt and not the operation.
C5_TimerCancelsOnlyItsOwnAttempt ==
  [][ \A r \in Reqs, k \in 0..2 :
        TimerFires(r, k) =>
          LET op == ops[r]
              op2 == ops'[r]
          IN  IF Len(op.attempts) >= k + 1 /\ op.attempts[k + 1].state = "inflight"
                THEN /\ op2.attempts[k + 1].state = "aborted"
                     /\ op2.attempts[k + 1].caught
                     /\ op2.lastError = AbortError
                     /\ \A j \in 1..k : op2.attempts[j] = op.attempts[j]
                     /\ IF k + 1 < Len(backendUrls)
                          THEN /\ Len(op2.attempts) = k + 2
                               /\ op2.attempts[k + 2].i = k + 1
                               /\ op2.attempts[k + 2].state = "inflight"
                               /\ op2.pc = "fetching"
                          ELSE /\ Len(op2.attempts) = k + 1
                               /\ op2.pc = "settled"
                               /\ op2.promise.state = "fulfilled"
                               /\ IsAllFailed(op2.promise.value)
                ELSE op2 = [op EXCEPT !.timers = @ \ {k}]
    ]_vars

\* C5 witness: the first candidate timed out, the second refused the
\* connection and its timer expired while the third attempt was in flight,
\* which still is
C5_Witness ==
  \E r \in Reqs :
    /\ Len(ops[r].attempts) = 3
    /\ ops[r].attempts[1].state = "aborted"
    /\ ops[r].attempts[2].state = "neterror"
    /\ 1 \notin ops[r].timers
    /\ ops[r].attempts[3].state = "inflight"
    /\ ops[r].pc = "fetching"

\* a response object a page can receive
WellFormedResponse(response) ==
  /\ response.status \in 200..599
  /\ response.status \in NullBodyStatuses => response.body = NullBody

\* C6 (as stated): whatever the request, what the page receives is a
\* well-formed response, never a rejection.
C6_EveryRequestGetsAResponse ==
  \A r \in Reqs :
    ops[r].pc = "done" =>
      /\ ops[r].result.kind = "response"
      /\ WellFormedResponse(ops[r].result.response)

\* C6 (amended): for every request whose path begins with /api/, what the
\* page receives is a well-formed response, never a rejection.
C6_ForwardedRequestGetsAResponse ==
  \A r \in Reqs :
    (ops[r].pc = "done" /\ InScope(ops[r])) =>
      /\ ops[r].result.kind = "response"
      /\ WellFormedResponse(ops[r].result.response)

\* C6 witness: a forwarded request all of whose attempts ended in an
\* exception has been answered
C6_Witness ==
  \E r \in Reqs :
    /\ ops[r].pc = "done"
    /\ InScope(ops[r])
    /\ Len(ops[r].attempts) = Len(backendUrls)
    /\ ops[r].attempts[3].state = "bodyerror"
    /\ ops[r].result.kind = "response"

\* C7: every forwarding operation ends with a response delivered to the
\* page, whatever the backends do.
C7_EveryOperationTerminates ==
  \A r \in Reqs :
    (ops[r].pc \in {"fetching", "reading"}) ~> (ops[r].pc = "done")

\* which of the three outcomes a response tells of, read off its headers
OutcomeOf(response) ==
  IF "access-control-allow-origin" \notin DOMAIN response.headers
    THEN "fault"
  ELSE IF response.headers["access-control-allow-origin"] = "*"
    THEN "allfailed"
  ELSE "forwarded"

\* C8: when the promise of handleApiRequest rejects, the page receives a
\* 500 response whose body has the fields error and message, message being
\* that of the fault; and the response tells the three outcomes apart:
\* the forwarded answer, the 503 of all candidates failing, the 500 of a
\* fault.
C8_FaultBecomes500 ==
  \A r \in Reqs :
    LET op == ops[r]
    IN  (op.pc = "done" /\ op.respondWith = <<"handleApiRequest">>) =>
          /\ op.result.kind = "response"
          /\ op.promise.state = "rejected" =>
               /\ op.result.response.status = 500
               /\ DOMAIN op.result.response.body = {"error", "message"}
               /\ op.result.response.body.message = op.promise.reason.message
          /\ OutcomeOf(op.result.response) =
               ( IF op.promise.state = "rejected" THEN "fault"
                 ELSE IF op.i = Len(backendUrls) THEN "allfailed"
                 ELSE "forwarded" )
          /\ OutcomeOf(op.result.response) = "allfailed" =>
               op.result.response.status = 503
          /\ OutcomeOf(op.result.response) = "forwarded" =>
               op.result.response = op.promise.value

\* C8 witness: a rejection has been answered with the 500 response
C8_Witness ==
  \E r \in Reqs :
    /\ ops[r].pc = "done"
    /\ ops[r].promise.state = "rejected"
    /\ ops[r].promise.reason = AbortError
    /\ ops[r].result.response.status = 500

\* C9: a request is given to handleApiRequest if and only if its path
\* begins with /api/; any other request reaches no candidate backend and is
\* given to the network as it is.
C9_OnlyApiPathsAreForwarded ==
  \A r \in Reqs :
    LET op == ops[r]
    IN  op.pc # "idle" =>
          /\ op.respondWith = <<"handleApiRequest">> <=> InScope(op)
          /\ ~InScope(op) =>
               /\ op.respondWith = <<"fetch">>
               /\ op.attempts = <<>>
               /\ op.timers = {}
               /\ op.passed = op.request

\* C9 witness: a request whose path holds /api/ but does not begin with it
\* went to the network and was answered
C9_Witness ==
  \E r \in Reqs :
    /\ ops[r].pc = "done"
    /\ ops[r].request.pathname = <<"/","v","1","/","a","p","i","/","u","s","e","r","s">>
    /\ ops[r].passed = ops[r].request
    /\ ops[r].result.kind = "response"

\* C10: the derived request of an attempt on a candidate whose base URL
\* contains app.github.dev has no origin header, that of an attempt on any
\* other candidate has the origin header https://wyerd.net, and every other
\* header of the original request is copied unchanged.
C10_OriginDependsOnCandidate ==
  \A r \in Reqs :
    LET op == ops[r]
    IN  \A k \in 1..Len(op.attempts) :
          LET sent == op.attempts[k].request.headers
              base == backendUrls[op.attempts[k].i + 1]
          IN  op.attempts[k].state # "notsent" =>
                /\ IF \E off \in 0..(Len(base) - 14) :
                        SubSeq(base, off + 1, off + 14) =
                          <<"a","p","p",".","g","i","t","h","u","b",".","d","e","v">>
                     THEN "origin" \notin DOMAIN sent
                     ELSE /\ "origin" \in DOMAIN sent
                          /\ sent["origin"] = "https://wyerd.net"
                /\ (DOMAIN sent) \ {"origin"} = (DOMAIN op.request.headers) \ {"origin"}
                /\ \A n \in (DOMAIN sent) \ {"origin"} : sent[n] = op.request.headers[n]

\* C11: when clients.claim() is called, every cache whose name is not the
\* current version's has been deleted, no deletion is still under way, and
\* the current version's cache is kept.
C11_StaleCachesDeletedBeforeClaim ==
  sw.claimed =>
    /\ sw.pending = {}
    /\ \A cacheName \in sw.cacheNames :
         IF cacheName = "wyerd-crm-v2"
           THEN cacheName \in sw.caches
           ELSE cacheName \in sw.deleted /\ cacheName \notin sw.caches

\* C11 witness: three stale caches were deleted, the current one is there,
\* and the clients were claimed
C11_Witness ==
  /\ sw.claimed
  /\ sw.deleted = {"wyerd-crm-v1", "wyerd-crm", "workbox-precache-v2"}
  /\ sw.caches = {"wyerd-crm-v2"}

\* C12: once every deletion has settled, one of them having failed, every
\* other stale cache has been deleted and activation has completed:
\* clients.claim() was called.
C12_FailedDeletionDoesNotBlockActivation ==
  (sw.failed # {} /\ sw.pending = {}) =>
    /\ \A cacheName \in sw.cacheNames \ sw.failed :
         cacheName # "wyerd-crm-v2" => cacheName \in sw.deleted
    /\ sw.claimed

\* C13: the lastError of the 503 all-failed response is the message of the
\* failure of the last candidate of the list, "Unknown error" when that
\* failure has no message, and never the empty text.
C13_LastErrorIsLastCandidates ==
  \A r \in Reqs :
    LET op == ops[r]
    IN  (op.pc = "done" /\ IsAllFailed(op.result.response)) =>
          LET last == op.attempts[Len(op.attempts)]
          IN  /\ last.i = Len(FALLBACK_BACKENDS)
              /\ last.caught
              /\ op.result.response.body.lastError =
                   ( IF last.error.message = "" THEN "Unknown error"
                     ELSE last.error.message )
              /\ op.result.response.body.lastError # ""

\* C13 witness: the three candidates failed in three ways, the last one
\* with an error that has no message, and the 503 reports "Unknown error"
C13_Witness ==
  \E r \in Reqs :
    /\ ops[r].pc = "done"
    /\ IsAllFailed(ops[r].result.response)
    /\ ops[r].attempts[1].error = AbortError
    /\ ops[r].attempts[2].error = BodyStreamError
    /\ ops[r].attempts[3].error = NetworkErrorNoMessage
    /\ ops[r].result.response.body.lastError = "Unknown error"

\* the attempts of an operation that ended in the catch block
Caught(op) == {k \in 1..Len(op.attempts) : op.attempts[k].caught}

\* C14: with several operations under way at once, each one starts with the
\* preferred candidate and walks the list in order, and its lastError, its
\* position in the list and the response it delivers are determined by the
\* outcomes of its own attempts alone.
C14_OperationsAreIndependent ==
  \A r \in DOMAIN ops :
    LET op == ops[r]
        n == Len(op.attempts)
    IN  /\ \A k \in 1..n : op.attempts[k].i = k - 1
        /\ op.i = Cardinality(Caught(op))
        /\ op.lastError =
             ( IF Caught(op) = {} THEN NoError
               ELSE op.attempts[Cardinality(Caught(op))].error )
        /\ op.pc = "done" =>
             IF op.attempts[n].caught
               THEN /\ n = Len(backendUrls)
                    /\ IsAllFailed(op.result.response)
                    /\ op.result.response.body.lastError = op.attempts[n].error.message
               ELSE /\ op.result.response.status = op.attempts[n].status
                    /\ op.result.response.body = TextBody(op.attempts[n].text)

\* C14 witness: while the first operation is at its third candidate after
\* two failures, the second one is being answered by the preferred candidate
C14_Witness ==
  /\ DOMAIN ops = 1..2
  /\ ops[1].pc = "fetching"
  /\ ops[1].i = 2
  /\ ops[1].lastError = BodyStreamError
  /\ ops[2].pc = "reading"
  /\ ops[2].i = 0
  /\ ops[2].lastError = NoError

\* C15: no attempt uses up or changes the intercepted request: every
\* derived request has the method of the original and its path and query
\* after the candidate's base URL; for a method other than GET and HEAD its
\* body is the original's body text, at every attempt, and for GET and HEAD
\* it has no body.
C15_RequestIsNeverConsumed ==
  \A r \in Reqs :
    LET op == ops[r]
    IN  /\ ~op.bodyUsed
        /\ \A k \in 1..Len(op.attempts) :
             LET sent == op.attempts[k].request
                 base == (<<PRIMARY_BACKEND>> \o FALLBACK_BACKENDS)[k]
             IN  /\ op.attempts[k].state # "notsent"
                 /\ sent.method = op.request.method
                 /\ SubSeq(sent.url, 1, Len(base)) = base
                 /\ SubSeq(sent.url, Len(base) + 1, Len(sent.url)) =
                      op.request.pathname \o op.request.search
                 /\ sent.body = IF op.request.method \in {"GET", "HEAD"}
                                  THEN [null |-> TRUE]
                                  ELSE op.request.body

\* C15 witness: a POST is at its third candidate, with its body
C15_Witness ==
  \E r \in Reqs :
    /\ ops[r].request.method = "POST"
    /\ Len(ops[r].attempts) = 3
    /\ ops[r].attempts[3].state = "inflight"
    /\ ops[r].attempts[3].request.body = [text |-> "{\"name\":\"x\"}"]

\* C16: the response built from a backend's answer has exactly the headers
\* Content-Type: application/json and the four CORS headers, the allowed
\* origin being https://wyerd.net; the allowed origin * is on the 503
\* all-failed response and on no other response.
C16_ForwardedHeadersAreFixed ==
  \A r \in Reqs :
    LET op == ops[r]
        h == op.result.response.headers
    IN  (op.pc = "done" /\ InScope(op)) =>
          /\ "access-control-allow-origin" \in DOMAIN h
          /\ h["access-control-allow-origin"] = "*" <=> IsAllFailed(op.result.response)
          /\ ~IsAllFailed(op.result.response) =>
               /\ DOMAIN h = {"content-type", "access-control-allow-origin",
                              "access-control-allow-methods",
                              "access-control-allow-headers",
                              "access-control-allow-credentials"}
               /\ h["content-type"] = "application/json"
               /\ h["access-control-allow-origin"] = "https://wyerd.net"
               /\ h["access-control-allow-methods"] = "GET, POST, PUT, DELETE, OPTIONS"
               /\ h["access-control-allow-headers"] =
                    "Content-Type, Authorization, X-Requested-With"
               /\ h["access-control-allow-credentials"] = "true"

\* C16 witness: the 503 of a backend itself was forwarded, with the
\* canonical origin
C16_Witness ==
  \E r \in Reqs :
    /\ ops[r].pc = "done"
    /\ InScope(ops[r])
    /\ ops[r].result.response.status = 503
    /\ ~IsAllFailed(ops[r].result.response)
    /\ ops[r].result.response.headers["access-control-allow-origin"] = "https://wyerd.net"

\* an attempt that ended in an exception: the fetch rejected or was
\* aborted, the body could not be read, the derived request could not be
\* built, or the answer has a status no response with a body can be built
\* from
EndedInException(a) ==
  \/ a.state \in {"neterror", "aborted", "bodyerror", "notsent"}
  \/ a.state = "answered" /\ a.status \in {101, 103, 204, 205, 304}

C18_RespondWithOnce ==
  \A r \in Reqs :
    IF ops[r].pc = "idle"
      THEN ops[r].respondWith = <<>>
      ELSE /\ Len(ops[r].respondWith) = 1
           /\ ops[r].respondWith[1] =
                IF InScope(ops[r]) THEN "handleApiRequest" ELSE "fetch"

\* C18 witness: a forwarded request was answered through the one
\* respondWith
C18_Witness ==
  \E r \in Reqs :
    /\ ops[r].pc = "done"
    /\ ops[r].respondWith = <<"handleApiRequest">>
    /\ ops[r].result.response.status = 404

====
